---- MODULE Spec2Model ----
(***************************************************************************)
(* A model of hard-xml's XmlReader (src/hard-xml/src/xml_reader.rs): a     *)
(* cursor over xmlparser's token stream with one token of lookahead        *)
(* (std::iter::Peekable), and the traversal helpers built on it.           *)
(*                                                                         *)
(* The tokenizer is an external collaborator.  It is modelled as a source  *)
(* that yields, on every pull, any token (or a lexical error), or ends;    *)
(* once it has ended it stays ended.  A token carries its span, modelled   *)
(* as its index in the stream.  Every helper of the reader is a loop that  *)
(* pulls one token per iteration; one action models one iteration (the     *)
(* pull, the whole match on the token and the return it may cause).        *)
(***************************************************************************)
EXTENDS Integers, Sequences, FiniteSets, TLC

\* ------------------------------------------------------------------ bounds

\* The tokenizer yields at most MaxTokens tokens before it ends.
MaxTokens == 7

\* ------------------------------------------------------------------ text

V_empty == <<>>
V_text == <<"t", "e", "x", "t">>
V_entities ==
    <<"&", "q", "u", "o", "t", ";", "&", "a", "p", "o", "s", ";",
      "&", "l", "t", ";", "&", "g", "t", ";", "&", "a", "m", "p", ";">>
V_decoded == <<"\"", "'", "<", ">", "&">>
V_numeric == <<"&", "#", "6", "0", ";", "&", "#", "x", "3", "e", ";">>
V_bad == <<"&", "t">>

\* The text values the tokenizer puts in Text and Cdata tokens.
Values == {V_empty, V_text, V_entities, V_numeric, V_bad}

\* ---------------------------------------------------------------- tokens

\* Element names (the `local` part of a tag name; the reader never looks at
\* the prefix).
Names == {"a", "b"}

AttrNames == {"x", "y"}

Tok(kind, end, local, text, span) ==
    [kind |-> kind, end |-> end, local |-> local, text |-> text, span |-> span]

\* What Iterator::next yields at the end of the stream.
NoneItem == Tok("None", "", "", <<>>, 0)

\* The items the tokenizer can yield as the token with span n:
\* Some(Ok(token)) for each kind of token, or Some(Err(_)).
ItemsAt(n) ==
    {Tok("ElementStart", "", l, <<>>, n) : l \in Names}
        \cup {Tok("Attribute", "", l, V_text, n) : l \in AttrNames}
        \cup {Tok("ElementEnd", e, "", <<>>, n) : e \in {"Open", "Empty"}}
        \cup {Tok("ElementEnd", "Close", l, <<>>, n) : l \in Names}
        \cup {Tok("Text", "", "", v, n) : v \in Values}
        \cup {Tok("Cdata", "", "", v, n) : v \in Values}
        \cup {Tok("Comment", "", "", <<>>, n), Tok("Error", "", "", <<>>, n)}

IsNone(item) == item.kind = "None"
IsErr(item) == item.kind = "Error"
IsEnd(item, e) == item.kind = "ElementEnd" /\ item.end = e

\* ------------------------------------------------------------- unescaper

\* Position of the first ";" of s at or after i, 0 when there is none.
RECURSIVE SemiFrom(_, _)
SemiFrom(s, i) ==
    IF i > Len(s) THEN 0
    ELSE IF s[i] = ";" THEN i
    ELSE SemiFrom(s, i + 1)

DigitVal(c) ==
    CASE c = "0" -> 0 [] c = "1" -> 1 [] c = "2" -> 2 [] c = "3" -> 3
      [] c = "4" -> 4 [] c = "5" -> 5 [] c = "6" -> 6 [] c = "7" -> 7
      [] c = "8" -> 8 [] c = "9" -> 9 [] c = "a" -> 10 [] c = "b" -> 11
      [] c = "c" -> 12 [] c = "d" -> 13 [] c = "e" -> 14 [] c = "f" -> 15
      [] OTHER -> 16

\* The number written by the digits ds in the given base (0 for no digits),
\* -1 when ds holds a character that is no digit of that base.
RECURSIVE Number(_, _, _)
Number(ds, base, acc) ==
    IF ds = <<>> THEN acc
    ELSE IF DigitVal(Head(ds)) >= base THEN -1
    ELSE Number(Tail(ds), base, acc * base + DigitVal(Head(ds)))

\* The character of a code point; the model's alphabet holds these five.
CharOf(code) ==
    CASE code = 34 -> <<"\"">> [] code = 38 -> <<"&">> [] code = 39 -> <<"'">>
      [] code = 60 -> <<"<">> [] code = 62 -> <<">">>
      [] OTHER -> <<>>

\* The decoding of the reference &name; : <<>> when it is malformed or unknown.
Entity(name) ==
    IF name = <<"l", "t">> THEN <<"<">>
    ELSE IF name = <<"g", "t">> THEN <<">">>
    ELSE IF name = <<"a", "m", "p">> THEN <<"&">>
    ELSE IF name = <<"a", "p", "o", "s">> THEN <<"'">>
    ELSE IF name = <<"q", "u", "o", "t">> THEN <<"\"">>
    ELSE IF Len(name) >= 3 /\ name[1] = "#" /\ name[2] = "x"
        THEN CharOf(Number(SubSeq(name, 3, Len(name)), 16, 0))
    ELSE IF Len(name) >= 2 /\ name[1] = "#"
        THEN CharOf(Number(Tail(name), 10, 0))
    ELSE <<>>

\* xml_unescape: [ok, val]; ok is FALSE on an unterminated or unrecognised
\* reference, and a text without "&" comes back unchanged.
RECURSIVE xml_unescape(_)
xml_unescape(s) ==
    IF s = <<>> THEN [ok |-> TRUE, val |-> <<>>]
    ELSE IF Head(s) # "&"
        THEN LET r == xml_unescape(Tail(s))
             IN  [ok |-> r.ok, val |-> IF r.ok THEN <<Head(s)>> \o r.val ELSE <<>>]
    ELSE LET j == SemiFrom(s, 2)
             c == IF j = 0 THEN <<>> ELSE Entity(SubSeq(s, 2, j - 1))
             r == IF c = <<>> THEN [ok |-> FALSE, val |-> <<>>]
                  ELSE xml_unescape(SubSeq(s, j + 1, Len(s)))
         IN  [ok |-> r.ok, val |-> IF r.ok THEN c \o r.val ELSE <<>>]

\* ------------------------------------------------------------- documents

\* A document as the tokenizer yields it: the tokens with their spans.
Doc(toks) == [i \in 1..Len(toks) |-> [toks[i] EXCEPT !.span = i]]

ES(l) == Tok("ElementStart", "", l, <<>>, 0)
Attr(l) == Tok("Attribute", "", l, V_text, 0)
Open == Tok("ElementEnd", "Open", "", <<>>, 0)
Empty == Tok("ElementEnd", "Empty", "", <<>>, 0)
Close(l) == Tok("ElementEnd", "Close", l, <<>>, 0)
Text(v) == Tok("Text", "", "", v, 0)
Cdata(v) == Tok("Cdata", "", "", v, 0)

\* <p><p></p></p>
D_nested == Doc(<<ES("p"), Open, ES("p"), Open, Close("p"), Close("p")>>)
\* <p><p/></p>
D_nestedEmpty == Doc(<<ES("p"), Open, ES("p"), Empty, Close("p")>>)
\* <p><p><p/><p></p></p></p>
D_deeper ==
    Doc(<<ES("p"), Open, ES("p"), Open, ES("p"), Empty, ES("p"), Open,
          Close("p"), Close("p"), Close("p")>>)
\* <a><b></a>
D_mismatch == Doc(<<ES("a"), Open, ES("b"), Open, Close("a")>>)
\* <parent attr="value">&quot;&apos;&lt;&gt;&amp;</parent>
D_escaped ==
    Doc(<<ES("parent"), Attr("attr"), Open, Text(V_entities), Close("parent")>>)
\* <parent attr="value"><![CDATA[&quot;&apos;&lt;&gt;&amp;]]></parent>
D_cdata ==
    Doc(<<ES("parent"), Attr("attr"), Open, Cdata(V_entities), Close("parent")>>)
\* <foo bar="bar" baz="baz" quz="quz"/>
D_attrs == Doc(<<ES("foo"), Attr("bar"), Attr("baz"), Attr("quz"), Empty>>)
\* <parent><skip/><skip2><x/></skip2><target/></parent>
D_skip ==
    Doc(<<ES("parent"), Open, ES("skip"), Empty, ES("skip2"), Open, ES("x"),
          Empty, Close("skip2"), ES("target"), Empty, Close("parent")>>)
\* <parent><skip><skip></skip></skip><tag/></parent>
D_skipSame ==
    Doc(<<ES("parent"), Open, ES("skip"), Open, ES("skip"), Open, Close("skip"),
          Close("skip"), ES("tag"), Empty, Close("parent")>>)

\* <p></p>
D_empty == Doc(<<ES("p"), Open, Close("p")>>)
\* <p/>
D_selfClosed == Doc(<<ES("p"), Empty>>)
\* <p><![CDATA[]]></p>
D_emptyCdata == Doc(<<ES("p"), Open, Cdata(V_empty), Close("p")>>)
\* <p x="text"></p> and <p x="text"/>
D_emptyAttr == Doc(<<ES("p"), Attr("x"), Open, Close("p")>>)
D_selfClosedAttr == Doc(<<ES("p"), Attr("x"), Empty>>)
\* <p>&quot;&apos;&lt;&gt;&amp;<![CDATA[text]]></p> and
\* <p><![CDATA[text]]>&quot;&apos;&lt;&gt;&amp;</p>
D_textCdata == Doc(<<ES("p"), Open, Text(V_entities), Cdata(V_text), Close("p")>>)
D_cdataText == Doc(<<ES("p"), Open, Cdata(V_text), Text(V_entities), Close("p")>>)
\* <a>text<b/></a>
D_mixed == Doc(<<ES("a"), Open, Text(V_text), ES("b"), Empty, Close("a")>>)

Docs ==
    {D_nested, D_nestedEmpty, D_deeper, D_mismatch, D_escaped, D_cdata,
     D_attrs, D_skip, D_skipSame, D_empty, D_selfClosed, D_emptyCdata,
     D_emptyAttr, D_selfClosedAttr, D_textCdata, D_cdataText, D_mixed}

\* The text handed to XmlReader::new: one of the documents above, or any
\* text at all (the tokenizer then yields whatever it likes).
AnyText == [any |-> TRUE, toks |-> <<>>]
Sources == {AnyText} \cup {[any |-> FALSE, toks |-> d] : d \in Docs}

\* ------------------------------------------------------------------ state

VARIABLES
    source,      \* the text the reader was made for
    fetched,     \* tokenizer: how many tokens it has yielded
    ended,       \* tokenizer: it has yielded None (the end of the stream)
    peeked,      \* Peekable: the lookahead slot, Option<Option<Item>>
    pc,          \* the helper that is running and the loop it is in, or "idle"
    end_tag,     \* the end_tag argument of the running (or last) helper
    caller_tag,  \* read_till_element_start's end_tag while it runs read_to_end
    res,         \* read_text's local `res`
    depth,       \* read_to_end's local `depth`
    ret,         \* what the last call returned ("running" during a call)
    consumed,    \* history: how many tokens Peekable::next has handed out
    lastTok,     \* history: the last token Peekable::next handed out
    inTag,       \* history: the element whose start tag lastTok belongs to
    startAt,     \* history: `consumed` when the running (or last) call began
    cur,         \* history: the item the call's last iteration matched on
    elem,        \* history: the element read_to_end was called to skip
    sib,         \* history: the siblings read_till_element_start goes through
    texts        \* history: the Text and Cdata tokens read_text has matched

reader == <<source, fetched, ended, peeked>>
locals == <<pc, end_tag, caller_tag, res, depth, ret>>
observed == <<startAt, cur, elem, sib, texts>>

\* Option<&str>::None for find_element_start's end_tag, and "no caller".
NoTag == "None"

EmptySlot == [full |-> FALSE, item |-> NoneItem]
NoRes == [some |-> FALSE, val |-> <<>>]

\* `cur` before the call's first iteration.
NotYet == Tok("NotYet", "", "", <<>>, 0)

\* `texts` before read_text has matched a Text or a Cdata token: how many it
\* has matched, and the last of them.
NoTexts == [n |-> 0, last |-> NotYet]

Ret(op, status, err, some, name, text, found, tok) ==
    [op |-> op, status |-> status, err |-> err, some |-> some, name |-> name,
     text |-> text, found |-> found, tok |-> tok]

Running(op) == Ret(op, "running", "", FALSE, "", <<>>, "", NoneItem)
Ok(op) == Ret(op, "Ok", "", FALSE, "", <<>>, "", NoneItem)
OkName(op, name) == Ret(op, "Ok", "", TRUE, name, <<>>, "", NoneItem)
OkText(op, text) == Ret(op, "Ok", "", TRUE, "", text, "", NoneItem)
OkAttr(op, name, value) == Ret(op, "Ok", "", TRUE, name, value, "", NoneItem)
OkItem(op, item) == Ret(op, "Ok", "", ~IsNone(item), "", <<>>, "", item)
UnexpectedEof(op) == Ret(op, "Err", "UnexpectedEof", FALSE, "", <<>>, "", NoneItem)
UnexpectedToken(op, item) ==
    Ret(op, "Err", "UnexpectedToken", FALSE, "", <<>>, "", item)
TagMismatch(op, expected, found) ==
    Ret(op, "Err", "TagMismatch", FALSE, expected, <<>>, found, NoneItem)
LexError(op, item) == Ret(op, "Err", "Lex", FALSE, "", <<>>, "", item)
EscapeError(op) == Ret(op, "Err", "Escape", FALSE, "", <<>>, "", NoneItem)

\* ------------------------------------------------------- what is observed

\* The history of an element (kind "elem") or of a run of sibling elements
\* (kind "sib") as the tokens go by: the names of the elements that are open,
\* whether the next token belongs to a start tag ("tag"), to an element's
\* content ("content") or stands between siblings ("between"), and whether
\* the tokens so far are well nested (wf).  An element's history is "done"
\* at the token that ends it, a run of siblings' at the start of the first
\* sibling named `tag`.  mono: every element so far is named `tag`.
Off == [kind |-> "off", tag |-> NoTag, wf |-> FALSE, mono |-> FALSE,
        mode |-> "off", stack |-> <<>>, status |-> "off"]

ElemAt(how, tag) ==
    [kind |-> how, tag |-> tag, wf |-> TRUE, mono |-> TRUE,
     mode |-> IF how = "afterOpen" THEN "content" ELSE "tag",
     stack |-> <<tag>>, status |-> "running"]

SibsTo(tag) ==
    [kind |-> "sib", tag |-> tag, wf |-> TRUE, mono |-> TRUE,
     mode |-> "between", stack |-> <<>>, status |-> "running"]

Broken(g) == [g EXCEPT !.wf = FALSE]

Push(g, name) ==
    [g EXCEPT !.stack = Append(g.stack, name), !.mode = "tag",
              !.mono = g.mono /\ name = g.tag]

Pop(g) ==
    [g EXCEPT !.stack = SubSeq(g.stack, 1, Len(g.stack) - 1),
              !.mode = IF Len(g.stack) > 1 THEN "content"
                       ELSE IF g.kind = "sib" THEN "between" ELSE "done"]

Track(g, item) ==
    IF g.kind = "off" \/ ~g.wf \/ g.mode = "done" THEN g
    ELSE IF g.mode = "tag" THEN
        CASE item.kind = "Attribute" -> g
          [] IsEnd(item, "Open") -> [g EXCEPT !.mode = "content"]
          [] IsEnd(item, "Empty") -> Pop(g)
          [] OTHER -> Broken(g)
    ELSE IF g.mode = "content" THEN
        CASE item.kind = "ElementStart" -> Push(g, item.local)
          [] IsEnd(item, "Close") ->
                IF item.local = g.stack[Len(g.stack)] THEN Pop(g) ELSE Broken(g)
          [] item.kind \in {"Text", "Cdata", "Comment"} -> g
          [] OTHER -> Broken(g)
    ELSE
        CASE item.kind = "ElementStart" ->
                IF item.local = g.tag THEN [g EXCEPT !.mode = "done"]
                ELSE Push(g, item.local)
          [] item.kind = "Comment" -> g
          [] OTHER -> Broken(g)

\* ------------------------------------------------------------------- Init

Init ==
    /\ source \in Sources
    /\ fetched = 0
    /\ ended = FALSE
    /\ peeked = EmptySlot
    /\ pc = "idle"
    /\ end_tag = NoTag
    /\ caller_tag = NoTag
    /\ res = NoRes
    /\ depth = 0
    /\ ret = Ok("new")
    /\ consumed = 0
    /\ lastTok = NoneItem
    /\ inTag = NoTag
    /\ startAt = 0
    /\ cur = NotYet
    /\ elem = Off
    /\ sib = Off
    /\ texts = NoTexts

\* ------------------------------------------------- tokenizer and Peekable

\* Tokenizer::next: the document's next token; of an arbitrary text, any
\* token or error while the stream lasts; None at the end.
TokenizerNext ==
    IF ended THEN {NoneItem}
    ELSE IF source.any THEN
        IF fetched >= MaxTokens THEN {NoneItem}
        ELSE {NoneItem} \cup ItemsAt(fetched + 1)
    ELSE IF fetched < Len(source.toks) THEN {source.toks[fetched + 1]}
    ELSE {NoneItem}

\* The tokenizer after Peekable has taken `item` from it.
Pulled(item) ==
    /\ fetched' = IF IsNone(item) THEN fetched ELSE fetched + 1
    /\ ended' = IF IsNone(item) THEN TRUE ELSE ended
    /\ UNCHANGED source

\* The items Peekable::next and Peekable::peek can return: the slot's
\* content if it is full, else the tokenizer's next item.
Incoming == IF peeked.full THEN {peeked.item} ELSE TokenizerNext

\* The start tag a token belongs to, given the one its predecessor belonged to.
TagOf(item, before) ==
    IF item.kind = "ElementStart" THEN item.local
    ELSE IF item.kind = "Attribute" \/ IsEnd(item, "Open") THEN before
    ELSE NoTag

\* A next that leaves in the slot what it hands out.
next_keepsSlot(item) ==
    /\ item \in Incoming
    /\ IF peeked.full THEN UNCHANGED <<source, fetched, ended>> ELSE Pulled(item)
    /\ peeked' = peeked
    /\ consumed' = IF IsNone(item) THEN consumed ELSE consumed + 1
    /\ lastTok' = IF IsNone(item) THEN lastTok ELSE item
    /\ inTag' = IF IsNone(item) THEN inTag ELSE TagOf(item, inTag)

\* Peekable::next, returning `item`; the slot is left empty.
next(item) ==
    /\ item \in Incoming
    /\ IF peeked.full THEN UNCHANGED <<source, fetched, ended>> ELSE Pulled(item)
    /\ peeked' = EmptySlot
    /\ consumed' = IF IsNone(item) THEN consumed ELSE consumed + 1
    /\ lastTok' = IF IsNone(item) THEN lastTok ELSE item
    /\ inTag' = IF IsNone(item) THEN inTag ELSE TagOf(item, inTag)

\* A peek that does not keep what it fetched.
peek_unbuffered(item) ==
    /\ item \in Incoming
    /\ IF peeked.full THEN UNCHANGED <<source, fetched, ended>> ELSE Pulled(item)
    /\ peeked' = EmptySlot
    /\ UNCHANGED <<consumed, lastTok, inTag>>

\* Peekable::peek, returning `item`; the slot is left full.
peek(item) ==
    /\ item \in Incoming
    /\ IF peeked.full THEN UNCHANGED <<source, fetched, ended>> ELSE Pulled(item)
    /\ peeked' = [full |-> TRUE, item |-> item]
    /\ UNCHANGED <<consumed, lastTok, inTag>>

\* The tag names a consumer passes: the names of its document.
ArgNames ==
    IF source.any THEN Names
    ELSE {source.toks[i].local : i \in {k \in 1..Len(source.toks) :
                                          source.toks[k].kind = "ElementStart"}}

\* ------------------------------------------------ XmlReader::next, peek

Idle == pc = "idle"

\* A call that is a single step: nothing of the helpers' histories is left.
Single(item) ==
    /\ startAt' = consumed
    /\ cur' = item
    /\ elem' = Off
    /\ sib' = Off
    /\ texts' = NoTexts
    /\ UNCHANGED <<pc, end_tag, caller_tag, res, depth>>

CallNext ==
    /\ Idle
    /\ \E item \in Incoming :
          /\ next(item)
          /\ ret' = OkItem("next", item)
          /\ Single(item)

CallPeek ==
    /\ Idle
    /\ \E item \in Incoming :
          /\ peek(item)
          /\ ret' = OkItem("peek", item)
          /\ Single(item)

\* ----------------------------------------------------- helper outcomes

\* What one loop iteration leaves behind: where the helper goes on, its
\* locals, and what it returned if it returned.
Out(pc_, end_tag_, caller_tag_, res_, depth_, ret_) ==
    [pc |-> pc_, end_tag |-> end_tag_, caller_tag |-> caller_tag_,
     res |-> res_, depth |-> depth_, ret |-> ret_]

\* The loop goes round again.
Continue == Out(pc, end_tag, caller_tag, res, depth, ret)

\* The helper returns r to the consumer; its locals die.
Return(r) == Out("idle", end_tag, NoTag, NoRes, 0, r)

Apply(o) ==
    /\ pc' = o.pc
    /\ end_tag' = o.end_tag
    /\ caller_tag' = o.caller_tag
    /\ res' = o.res
    /\ depth' = o.depth
    /\ ret' = o.ret

\* A helper is called: its locals are fresh and nothing is read yet.
Call(op, tag) ==
    /\ Idle
    /\ pc' = op
    /\ end_tag' = tag
    /\ caller_tag' = NoTag
    /\ res' = NoRes
    /\ depth' = 0
    /\ ret' = Running(IF op = "rte_drain" THEN "read_to_end" ELSE op)
    /\ startAt' = consumed
    /\ cur' = NotYet
    /\ texts' = NoTexts
    /\ UNCHANGED <<reader, consumed, lastTok, inTag>>

\* read_to_end's status after an iteration with outcome o.
RteStatus(o) ==
    IF o.pc \in {"rte_drain", "rte_track", "rte_inner"} THEN "running"
    ELSE IF o.ret.status = "Err" THEN "Err"
    ELSE "Ok"

\* The histories after an iteration of read_to_end that matched on `item`.
ObserveRte(item, o) ==
    /\ cur' = item
    /\ elem' = [Track(elem, item) EXCEPT !.status = RteStatus(o)]
    /\ sib' = IF caller_tag = NoTag THEN sib
              ELSE [Track(sib, item) EXCEPT !.status =
                        IF o.pc = "idle" THEN o.ret.status ELSE "running"]
    /\ UNCHANGED <<startAt, texts>>

\* The histories after an iteration of another helper.
Observe(item) ==
    /\ cur' = item
    /\ texts' = IF pc = "read_text" /\ item.kind \in {"Text", "Cdata"}
                 THEN [n |-> texts.n + 1, last |-> item]
                 ELSE texts
    /\ UNCHANGED <<startAt, elem, sib>>

\* --------------------------------------------- XmlReader::find_attribute

\* The match on the peeked item.
FindAttributeArm(item) ==
    CASE IsNone(item) -> UnexpectedEof("find_attribute")
      [] item.kind = "Attribute" -> OkAttr("find_attribute", item.local, item.text)
      [] IsEnd(item, "Open") \/ IsEnd(item, "Empty") -> Ok("find_attribute")
      [] IsErr(item) -> LexError("find_attribute", item)
      [] OTHER -> UnexpectedToken("find_attribute", item)

\* A find_attribute that also consumes the marker that ends the attributes.
FindAttributeTakes_marker(item) ==
    item.kind = "Attribute" \/ IsErr(item) \/ item.kind = "ElementEnd"

\* Whether the arm goes on to self.next() after the peek.
FindAttributeTakes(item) == item.kind = "Attribute" \/ IsErr(item)

FindAttribute ==
    /\ Idle
    /\ \E item \in Incoming :
          /\ IF FindAttributeTakes(item) THEN next(item) ELSE peek(item)
          /\ ret' = FindAttributeArm(item)
          /\ Single(item)

\* ----------------------------------------- XmlReader::find_element_start

CallFindElementStart ==
    \E tag \in ArgNames \cup {NoTag} :
        Call("find_element_start", tag) /\ elem' = Off /\ sib' = Off

\* A find_element_start that consumes the start token it reports.
FindElementStartTakes_start(item) ==
    \/ IsEnd(item, "Close") /\ end_tag # NoTag /\ item.local = end_tag
    \/ item.kind \in {"Text", "Cdata", "Comment", "Error", "ElementStart"}

FindElementStartTakes(item) ==
    \/ IsEnd(item, "Close") /\ end_tag # NoTag /\ item.local = end_tag
    \/ item.kind \in {"Text", "Cdata", "Comment", "Error"}

\* A find_element_start for which text between the children is an error.
FindElementStartArm_textIsError(item) ==
    CASE IsNone(item) -> Return(UnexpectedEof("find_element_start"))
      [] item.kind = "ElementStart" ->
            Return(OkName("find_element_start", item.local))
      [] IsEnd(item, "Close") /\ end_tag # NoTag ->
            IF item.local = end_tag
               THEN Return(Ok("find_element_start"))
               ELSE Return(TagMismatch("find_element_start", end_tag, item.local))
      [] /\ item.kind \in {"ElementEnd", "Attribute", "Text", "Cdata"}
         /\ ~(IsEnd(item, "Close") /\ end_tag # NoTag) ->
            Return(UnexpectedToken("find_element_start", item))
      [] IsErr(item) -> Return(LexError("find_element_start", item))
      [] OTHER -> Continue

FindElementStartArm(item) ==
    CASE IsNone(item) -> Return(UnexpectedEof("find_element_start"))
      [] item.kind = "ElementStart" ->
            Return(OkName("find_element_start", item.local))
      [] IsEnd(item, "Close") /\ end_tag # NoTag ->
            IF item.local = end_tag
               THEN Return(Ok("find_element_start"))
               ELSE Return(TagMismatch("find_element_start", end_tag, item.local))
      [] /\ item.kind \in {"ElementEnd", "Attribute"}
         /\ ~(IsEnd(item, "Close") /\ end_tag # NoTag) ->
            Return(UnexpectedToken("find_element_start", item))
      [] IsErr(item) -> Return(LexError("find_element_start", item))
      [] OTHER -> Continue

FindElementStartStep ==
    /\ pc = "find_element_start"
    /\ \E item \in Incoming :
          /\ IF FindElementStartTakes(item) THEN next(item) ELSE peek(item)
          /\ Apply(FindElementStartArm(item))
          /\ Observe(item)

\* --------------------------------------------------- XmlReader::read_text

CallReadText ==
    \E tag \in ArgNames : Call("read_text", tag) /\ elem' = Off /\ sib' = Off

Default(r) == IF r.some THEN r.val ELSE <<>>

\* A read_text that unescapes CDATA as it unescapes text.
ReadTextArm_cdataUnescaped(item) ==
    CASE IsNone(item) -> Return(OkText("read_text", Default(res)))
      [] IsErr(item) -> Return(LexError("read_text", item))
      [] IsEnd(item, "Open") \/ item.kind = "Attribute" -> Continue
      [] item.kind \in {"Text", "Cdata"} ->
            IF xml_unescape(item.text).ok
               THEN Out(pc, end_tag, caller_tag,
                        [some |-> TRUE, val |-> xml_unescape(item.text).val],
                        depth, ret)
               ELSE Return(EscapeError("read_text"))
      [] IsEnd(item, "Close") ->
            IF end_tag = item.local
               THEN Return(OkText("read_text", Default(res)))
               ELSE Return(TagMismatch("read_text", end_tag, item.local))
      [] IsEnd(item, "Empty") -> Return(OkText("read_text", Default(res)))
      [] OTHER -> Return(UnexpectedToken("read_text", item))

\* A read_text that takes any close tag for its own.
ReadTextArm_anyClose(item) ==
    CASE IsNone(item) -> Return(OkText("read_text", Default(res)))
      [] IsErr(item) -> Return(LexError("read_text", item))
      [] IsEnd(item, "Open") \/ item.kind = "Attribute" -> Continue
      [] item.kind = "Text" ->
            IF xml_unescape(item.text).ok
               THEN Out(pc, end_tag, caller_tag,
                        [some |-> TRUE, val |-> xml_unescape(item.text).val],
                        depth, ret)
               ELSE Return(EscapeError("read_text"))
      [] item.kind = "Cdata" ->
            Out(pc, end_tag, caller_tag, [some |-> TRUE, val |-> item.text],
                depth, ret)
      [] IsEnd(item, "Close") \/ IsEnd(item, "Empty") ->
            Return(OkText("read_text", Default(res)))
      [] OTHER -> Return(UnexpectedToken("read_text", item))

\* A read_text that has no arm for the self-closing marker.
ReadTextArm_noEmpty(item) ==
    CASE IsNone(item) -> Return(OkText("read_text", Default(res)))
      [] IsErr(item) -> Return(LexError("read_text", item))
      [] IsEnd(item, "Open") \/ item.kind = "Attribute" -> Continue
      [] item.kind = "Text" ->
            IF xml_unescape(item.text).ok
               THEN Out(pc, end_tag, caller_tag,
                        [some |-> TRUE, val |-> xml_unescape(item.text).val],
                        depth, ret)
               ELSE Return(EscapeError("read_text"))
      [] item.kind = "Cdata" ->
            Out(pc, end_tag, caller_tag, [some |-> TRUE, val |-> item.text],
                depth, ret)
      [] IsEnd(item, "Close") ->
            IF end_tag = item.local
               THEN Return(OkText("read_text", Default(res)))
               ELSE Return(TagMismatch("read_text", end_tag, item.local))
      [] OTHER -> Return(UnexpectedToken("read_text", item))

\* A read_text that keeps the first text it met.
ReadTextArm_firstWins(item) ==
    CASE IsNone(item) -> Return(OkText("read_text", Default(res)))
      [] IsErr(item) -> Return(LexError("read_text", item))
      [] IsEnd(item, "Open") \/ item.kind = "Attribute" -> Continue
      [] item.kind = "Text" ->
            IF xml_unescape(item.text).ok
               THEN Out(pc, end_tag, caller_tag,
                        IF res.some THEN res
                        ELSE [some |-> TRUE, val |-> xml_unescape(item.text).val],
                        depth, ret)
               ELSE Return(EscapeError("read_text"))
      [] item.kind = "Cdata" ->
            Out(pc, end_tag, caller_tag,
                IF res.some THEN res ELSE [some |-> TRUE, val |-> item.text],
                depth, ret)
      [] IsEnd(item, "Close") ->
            IF end_tag = item.local
               THEN Return(OkText("read_text", Default(res)))
               ELSE Return(TagMismatch("read_text", end_tag, item.local))
      [] IsEnd(item, "Empty") -> Return(OkText("read_text", Default(res)))
      [] OTHER -> Return(UnexpectedToken("read_text", item))

\* A read_text that skips what it does not know.
ReadTextArm_skipsOther(item) ==
    CASE IsNone(item) -> Return(OkText("read_text", Default(res)))
      [] IsErr(item) -> Return(LexError("read_text", item))
      [] IsEnd(item, "Open") \/ item.kind = "Attribute" -> Continue
      [] item.kind = "Text" ->
            IF xml_unescape(item.text).ok
               THEN Out(pc, end_tag, caller_tag,
                        [some |-> TRUE, val |-> xml_unescape(item.text).val],
                        depth, ret)
               ELSE Return(EscapeError("read_text"))
      [] item.kind = "Cdata" ->
            Out(pc, end_tag, caller_tag, [some |-> TRUE, val |-> item.text],
                depth, ret)
      [] IsEnd(item, "Close") ->
            IF end_tag = item.local
               THEN Return(OkText("read_text", Default(res)))
               ELSE Return(TagMismatch("read_text", end_tag, item.local))
      [] IsEnd(item, "Empty") -> Return(OkText("read_text", Default(res)))
      [] OTHER -> Continue

ReadTextArm(item) ==
    CASE IsNone(item) -> Return(OkText("read_text", Default(res)))
      [] IsErr(item) -> Return(LexError("read_text", item))
      [] IsEnd(item, "Open") \/ item.kind = "Attribute" -> Continue
      [] item.kind = "Text" ->
            IF xml_unescape(item.text).ok
               THEN Out(pc, end_tag, caller_tag,
                        [some |-> TRUE, val |-> xml_unescape(item.text).val],
                        depth, ret)
               ELSE Return(EscapeError("read_text"))
      [] item.kind = "Cdata" ->
            Out(pc, end_tag, caller_tag, [some |-> TRUE, val |-> item.text],
                depth, ret)
      [] IsEnd(item, "Close") ->
            IF end_tag = item.local
               THEN Return(OkText("read_text", Default(res)))
               ELSE Return(TagMismatch("read_text", end_tag, item.local))
      [] IsEnd(item, "Empty") -> Return(OkText("read_text", Default(res)))
      [] OTHER -> Return(UnexpectedToken("read_text", item))

ReadTextStep ==
    /\ pc = "read_text"
    /\ \E item \in Incoming :
          /\ next(item)
          /\ Apply(ReadTextArm(item))
          /\ Observe(item)

\* ------------------------------------------------ XmlReader::read_to_end

CallReadToEnd ==
    \E tag \in ArgNames :
        /\ Call("rte_drain", tag)
        /\ elem' = IF lastTok.kind = "ElementStart" /\ lastTok.local = tag
                      THEN ElemAt("afterStart", tag)
                   ELSE IF IsEnd(lastTok, "Open") /\ inTag = tag
                      THEN ElemAt("afterOpen", tag)
                   ELSE Off
        /\ sib' = Off

\* read_to_end runs for the consumer, or for read_till_element_start, whose
\* loop its Ok resumes and whose result its Err becomes (the `?`).
RteOp == IF caller_tag = NoTag THEN "read_to_end" ELSE "read_till_element_start"

RteOk ==
    IF caller_tag = NoTag
       THEN Return(Ok("read_to_end"))
       ELSE Out("read_till_element_start", caller_tag, NoTag, NoRes, 0, ret)

RteErr(r) ==
    Out("idle", IF caller_tag = NoTag THEN end_tag ELSE caller_tag,
        NoTag, NoRes, 0, r)

\* A read_to_end that starts its count at 0.
ReadToEndDrainArm_depthZero(item) ==
    CASE IsNone(item) -> Out("rte_track", end_tag, caller_tag, res, 0, ret)
      [] IsErr(item) -> RteErr(LexError(RteOp, item))
      [] IsEnd(item, "Empty") -> RteOk
      [] IsEnd(item, "Open") -> Out("rte_track", end_tag, caller_tag, res, 0, ret)
      [] item.kind = "Attribute" -> Continue
      [] OTHER -> RteErr(UnexpectedToken(RteOp, item))

\* The first loop: the rest of the start tag that is already open.  When the
\* stream ends here the loop is left and the second loop is entered.
ReadToEndDrainArm(item) ==
    CASE IsNone(item) -> Out("rte_track", end_tag, caller_tag, res, 1, ret)
      [] IsErr(item) -> RteErr(LexError(RteOp, item))
      [] IsEnd(item, "Empty") -> RteOk
      [] IsEnd(item, "Open") -> Out("rte_track", end_tag, caller_tag, res, 1, ret)
      [] item.kind = "Attribute" -> Continue
      [] OTHER -> RteErr(UnexpectedToken(RteOp, item))

ReadToEndDrain ==
    /\ pc = "rte_drain"
    /\ \E item \in Incoming :
          /\ next(item)
          /\ Apply(ReadToEndDrainArm(item))
          /\ ObserveRte(item, ReadToEndDrainArm(item))

\* A read_to_end that counts no depth: it returns at the first Close(end_tag).
ReadToEndTrackArm_firstClose(item) ==
    CASE IsNone(item) -> RteErr(UnexpectedEof(RteOp))
      [] IsErr(item) -> RteErr(LexError(RteOp, item))
      [] IsEnd(item, "Close") /\ end_tag = item.local -> RteOk
      [] OTHER -> Continue

\* A read_to_end that counts down at every close tag.
ReadToEndTrackArm_anyClose(item) ==
    CASE IsNone(item) -> RteErr(UnexpectedEof(RteOp))
      [] IsErr(item) -> RteErr(LexError(RteOp, item))
      [] item.kind = "ElementStart" /\ end_tag = item.local ->
            Out("rte_inner", end_tag, caller_tag, res, depth, ret)
      [] IsEnd(item, "Close") ->
            IF depth - 1 = 0 THEN RteOk
            ELSE Out(pc, end_tag, caller_tag, res, depth - 1, ret)
      [] OTHER -> Continue

\* A read_to_end that passes over the tokenizer's errors.
ReadToEndTrackArm_skipsErr(item) ==
    CASE IsNone(item) -> RteErr(UnexpectedEof(RteOp))
      [] item.kind = "ElementStart" /\ end_tag = item.local ->
            Out("rte_inner", end_tag, caller_tag, res, depth, ret)
      [] IsEnd(item, "Close") /\ end_tag = item.local ->
            IF depth - 1 = 0 THEN RteOk
            ELSE Out(pc, end_tag, caller_tag, res, depth - 1, ret)
      [] OTHER -> Continue

\* A read_to_end that goes on when the stream has ended.
ReadToEndTrackArm_noEof(item) ==
    CASE IsErr(item) -> RteErr(LexError(RteOp, item))
      [] item.kind = "ElementStart" /\ end_tag = item.local ->
            Out("rte_inner", end_tag, caller_tag, res, depth, ret)
      [] IsEnd(item, "Close") /\ end_tag = item.local ->
            IF depth - 1 = 0 THEN RteOk
            ELSE Out(pc, end_tag, caller_tag, res, depth - 1, ret)
      [] OTHER -> Continue

\* The second loop: depth tracking.
ReadToEndTrackArm(item) ==
    CASE IsNone(item) -> RteErr(UnexpectedEof(RteOp))
      [] IsErr(item) -> RteErr(LexError(RteOp, item))
      [] item.kind = "ElementStart" /\ end_tag = item.local ->
            Out("rte_inner", end_tag, caller_tag, res, depth, ret)
      [] IsEnd(item, "Close") /\ end_tag = item.local ->
            IF depth - 1 = 0
               THEN RteOk
               ELSE Out(pc, end_tag, caller_tag, res, depth - 1, ret)
      [] OTHER -> Continue

ReadToEndTrack ==
    /\ pc = "rte_track"
    /\ \E item \in Incoming :
          /\ next(item)
          /\ Apply(ReadToEndTrackArm(item))
          /\ ObserveRte(item, ReadToEndTrackArm(item))

\* A nested self-closing element counted as if it stayed open.
ReadToEndInnerArm_emptyCounts(item) ==
    CASE IsNone(item) -> Out("rte_track", end_tag, caller_tag, res, depth, ret)
      [] IsErr(item) -> RteErr(LexError(RteOp, item))
      [] IsEnd(item, "Empty") \/ IsEnd(item, "Open") ->
            Out("rte_track", end_tag, caller_tag, res, depth + 1, ret)
      [] item.kind = "Attribute" -> Continue
      [] OTHER -> RteErr(UnexpectedToken(RteOp, item))

\* The loop inside the second loop: the start tag of a nested element named
\* end_tag.  When the stream ends here the second loop goes round again.
ReadToEndInnerArm(item) ==
    CASE IsNone(item) -> Out("rte_track", end_tag, caller_tag, res, depth, ret)
      [] IsErr(item) -> RteErr(LexError(RteOp, item))
      [] IsEnd(item, "Empty") ->
            IF depth = 0
               THEN RteOk
               ELSE Out("rte_track", end_tag, caller_tag, res, depth, ret)
      [] IsEnd(item, "Open") ->
            Out("rte_track", end_tag, caller_tag, res, depth + 1, ret)
      [] item.kind = "Attribute" -> Continue
      [] OTHER -> RteErr(UnexpectedToken(RteOp, item))

ReadToEndInner ==
    /\ pc = "rte_inner"
    /\ \E item \in Incoming :
          /\ next(item)
          /\ Apply(ReadToEndInnerArm(item))
          /\ ObserveRte(item, ReadToEndInnerArm(item))

\* ------------------------------------ XmlReader::read_till_element_start

CallReadTillElementStart ==
    \E tag \in ArgNames :
        /\ Call("read_till_element_start", tag)
        /\ elem' = Off
        /\ sib' = SibsTo(tag)

\* A read_till_element_start that steps over another element's start token
\* without skipping the element.
ReadTillElementStartArm_noSkip(item) ==
    CASE IsNone(item) -> Return(Ok("read_till_element_start"))
      [] IsErr(item) -> Return(LexError("read_till_element_start", item))
      [] item.kind = "ElementStart" ->
            IF end_tag = item.local
               THEN Return(Ok("read_till_element_start"))
               ELSE Continue
      [] item.kind \in {"ElementEnd", "Attribute", "Text", "Cdata"} ->
            Return(UnexpectedToken("read_till_element_start", item))
      [] OTHER -> Continue

ReadTillElementStartArm(item) ==
    CASE IsNone(item) -> Return(Ok("read_till_element_start"))
      [] IsErr(item) -> Return(LexError("read_till_element_start", item))
      [] item.kind = "ElementStart" ->
            IF end_tag = item.local
               THEN Return(Ok("read_till_element_start"))
               ELSE Out("rte_drain", item.local, end_tag, res, depth, ret)
      [] item.kind \in {"ElementEnd", "Attribute", "Text", "Cdata"} ->
            Return(UnexpectedToken("read_till_element_start", item))
      [] OTHER -> Continue

ReadTillElementStartStep ==
    /\ pc = "read_till_element_start"
    /\ \E item \in Incoming :
          /\ next(item)
          /\ Apply(ReadTillElementStartArm(item))
          /\ cur' = item
          /\ elem' = IF ReadTillElementStartArm(item).pc = "rte_drain"
                        THEN ElemAt("afterStart", item.local)
                        ELSE elem
          /\ sib' = [Track(sib, item) EXCEPT !.status =
                        IF ReadTillElementStartArm(item).pc = "idle"
                           THEN ReadTillElementStartArm(item).ret.status
                           ELSE "running"]
          /\ UNCHANGED <<startAt, texts>>

\* ---------------------------------------------------------- specification

vars == <<source, fetched, ended, peeked, pc, end_tag, caller_tag, res, depth,
          ret, consumed, lastTok, inTag, startAt, cur, elem, sib, texts>>

Next ==
    \/ CallNext
    \/ CallPeek
    \/ FindAttribute
    \/ CallFindElementStart
    \/ FindElementStartStep
    \/ CallReadText
    \/ ReadTextStep
    \/ CallReadToEnd
    \/ ReadToEndDrain
    \/ ReadToEndTrack
    \/ ReadToEndInner
    \/ CallReadTillElementStart
    \/ ReadTillElementStartStep

Spec == Init /\ [][Next]_vars

\* ----------------------------------------------------------------- claims

RteRunning == pc \in {"rte_drain", "rte_track", "rte_inner"}

\* read_to_end, called by the consumer, has returned Ok with the cursor
\* right after the token that ends the element: the last token handed out
\* is the element's Empty marker or a Close(tag), and nothing is buffered.
ReturnedAtEnd(tag) ==
    /\ pc = "idle"
    /\ ret = Ok("read_to_end")
    /\ ~peeked.full
    /\ lastTok.span = consumed
    /\ IsEnd(lastTok, "Empty") \/ (IsEnd(lastTok, "Close") /\ lastTok.local = tag)

\* C1: read_to_end(t), called when the ElementStart of an element named t
\* has just been consumed, on tokens that are well nested so far: it has
\* not failed, and it has returned Ok exactly when the token that ends that
\* very element has been consumed (not before, at the Close of a same-named
\* descendant, and not later), leaving the cursor right after that token.
C1_ReadToEndEndsElement ==
    (elem.kind = "afterStart" /\ elem.wf) =>
        /\ elem.status # "Err"
        /\ (elem.mode = "done") <=> (elem.status = "Ok")
        /\ elem.status = "running" => RteRunning
        /\ (elem.status = "Ok" /\ ret.op = "read_to_end") => ReturnedAtEnd(elem.tag)

\* <p><p><p/><p></p></p></p>: read_to_end("p") called after the first <p
\* has returned after the eleventh token, the outer </p>.
C1_Witness ==
    /\ source.toks = D_deeper
    /\ startAt = 1
    /\ elem.kind = "afterStart" /\ elem.wf /\ elem.mode = "done"
    /\ ReturnedAtEnd("p")
    /\ consumed = 11

SameNameDocs == {D_nested, D_nestedEmpty, D_deeper}

\* The consumer's call of `op`, begun after `n` tokens of the document
\* `doc`, has returned.
ReturnedAt(doc, op, n) ==
    /\ ~source.any /\ source.toks = doc
    /\ pc = "idle" /\ ret.op = op /\ ret.status # "running"
    /\ startAt = n

\* The same, of a call with end_tag `tag`.
Returned(doc, op, tag, n) == ReturnedAt(doc, op, n) /\ end_tag = tag

\* C2 as stated: on <p><p></p></p>, <p><p/></p> and the deeper nesting,
\* read_to_end("p") entered after the outer <p and its Open marker succeeds
\* and consumes exactly through the outer </p>.
C2_AfterOpenMarker ==
    \A doc \in SameNameDocs :
        Returned(doc, "read_to_end", "p", 2) =>
            ReturnedAtEnd("p") /\ consumed = Len(doc)

\* C2, amended: read_to_end("p") entered after the outer <p, its Open marker
\* still unread, succeeds on <p><p></p></p>, <p><p/></p> and the deeper
\* nesting, having consumed exactly through the outer </p>; and on every
\* well-nested element whose descendants all bear its name, it has not
\* failed, its depth is the number of elements open, and it has returned Ok
\* exactly when no element is open any more.
C2_SameNameNesting ==
    /\ \A doc \in SameNameDocs :
          Returned(doc, "read_to_end", "p", 1) =>
              ReturnedAtEnd("p") /\ consumed = Len(doc)
    /\ (elem.kind = "afterStart" /\ elem.wf /\ elem.mono) =>
          /\ elem.status # "Err"
          /\ (elem.status = "Ok") <=> (elem.stack = <<>>)
          /\ pc = "rte_track" => depth = Len(elem.stack)
          /\ pc = "rte_inner" => depth + 1 = Len(elem.stack)

\* <p><p></p></p>: read_to_end("p") called after the first <p has returned
\* Ok after the sixth token.
C2_Witness ==
    /\ Returned(D_nested, "read_to_end", "p", 1)
    /\ ReturnedAtEnd("p")
    /\ consumed = 6
    /\ elem.mono /\ elem.wf

\* A helper called with a tag has met a close tag of another name.
MetOtherClose ==
    /\ end_tag # NoTag
    /\ IsEnd(cur, "Close")
    /\ cur.local # end_tag

\* C3 as stated, on the documents: read_text, read_to_end and
\* find_element_start(Some(tag)), called for an element after its
\* ElementStart, fail with TagMismatch{expected: tag, found} at a close tag
\* of another name (on <a><b></a>, called for "b" after <b, with
\* TagMismatch{expected: "b", found: "a"}).
C3_EveryHelperMismatch ==
    (/\ ~source.any
     /\ ret.op \in {"read_text", "read_to_end", "find_element_start"}
     /\ startAt >= 1
     /\ source.toks[startAt].kind = "ElementStart"
     /\ source.toks[startAt].local = end_tag
     /\ MetOtherClose) =>
        pc = "idle" /\ ret = TagMismatch(ret.op, end_tag, cur.local)

\* C3, amended: read_text and find_element_start(Some(tag)) fail with
\* TagMismatch{expected: tag, found} at a close tag of another name;
\* read_to_end never reports TagMismatch: its depth-tracking loop goes on
\* past such a close tag, and its start-tag loops reject every close tag as
\* an unexpected token.  On <a><b></a>: read_text("b") called after <b and
\* find_element_start(Some("b")) called after <b> fail with
\* TagMismatch{expected: "b", found: "a"}; find_element_start(Some("b"))
\* called after <b fails at the Open marker with UnexpectedToken, and
\* read_to_end("b") called after <b fails with UnexpectedEof.
C3_MismatchWhereChecked ==
    /\ (ret.op \in {"read_text", "find_element_start"} /\ MetOtherClose) =>
          pc = "idle" /\ ret = TagMismatch(ret.op, end_tag, cur.local)
    /\ ret.op = "read_to_end" =>
          /\ ret.err # "TagMismatch"
          /\ MetOtherClose =>
                \/ pc = "rte_track" /\ ret.status = "running"
                \/ pc = "idle" /\ ret = UnexpectedToken("read_to_end", cur)
    /\ Returned(D_mismatch, "read_text", "b", 3) =>
          ret = TagMismatch("read_text", "b", "a")
    /\ Returned(D_mismatch, "find_element_start", "b", 4) =>
          ret = TagMismatch("find_element_start", "b", "a")
    /\ Returned(D_mismatch, "find_element_start", "b", 3) =>
          ret = UnexpectedToken("find_element_start", D_mismatch[4])
    /\ Returned(D_mismatch, "read_to_end", "b", 3) =>
          ret = UnexpectedEof("read_to_end")

\* <a><b></a>: read_text("b") called after <b has failed at </a>.
C3_Witness ==
    /\ Returned(D_mismatch, "read_text", "b", 3)
    /\ ret = TagMismatch("read_text", "b", "a")
    /\ lastTok = D_mismatch[5]

\* C4: read_text fails with UnexpectedEof when the stream ends before it has
\* consumed a Close(end_tag) or an Empty marker.
C4_ReadTextEof ==
    (pc = "idle" /\ ret.op = "read_text" /\ IsNone(cur)) =>
        ret = UnexpectedEof("read_text")

\* C5: read_till_element_start fails with UnexpectedEof when the stream ends
\* before it has consumed an ElementStart named end_tag, and returns Ok only
\* if the last token it consumed is such an ElementStart.
C5_ReadTillEof ==
    (pc = "idle" /\ ret.op = "read_till_element_start") =>
        /\ IsNone(cur) => ret = UnexpectedEof("read_till_element_start")
        /\ ret.status = "Ok" =>
              /\ cur.kind = "ElementStart" /\ cur.local = end_tag
              /\ lastTok = cur

\* C6: read_till_element_start(t) on a run of sibling elements that is well
\* nested so far: it has not failed, and it has returned Ok exactly when the
\* ElementStart of the first sibling named t has been consumed, every
\* sibling before it skipped with its whole subtree; the cursor is then
\* right after that ElementStart.
C6_SkipsSiblings ==
    (sib.kind = "sib" /\ sib.wf) =>
        /\ sib.status # "Err"
        /\ (sib.mode = "done") <=> (sib.status = "Ok")
        /\ sib.status = "Ok" =>
              /\ pc = "idle" /\ ret = Ok("read_till_element_start")
              /\ lastTok.kind = "ElementStart" /\ lastTok.local = sib.tag
              /\ lastTok.span = consumed
              /\ ~peeked.full
        /\ (sib.status = "running" /\ ~RteRunning) => sib.stack = <<>>

\* <parent><skip/><skip2><x/></skip2><target/></parent>:
\* read_till_element_start("target") called after <parent> has returned at
\* <target, the tenth token.
C6_Witness ==
    /\ Returned(D_skip, "read_till_element_start", "target", 2)
    /\ ret = Ok("read_till_element_start")
    /\ sib.wf /\ sib.mode = "done"
    /\ lastTok = D_skip[10]
    /\ consumed = 10

\* The lookahead slot holds `item`, the token after the last one consumed.
Lookahead(item) ==
    /\ peeked = [full |-> TRUE, item |-> item]
    /\ item.span = consumed + 1

\* The last token consumed is `item`, and nothing is buffered.
JustConsumed(item) ==
    /\ lastTok = item
    /\ item.span = consumed
    /\ ~peeked.full

\* find_attribute's answers, as states: an Attribute at the cursor is
\* returned as Some((name, value)) and is the one token consumed; an Open
\* or Empty marker at the cursor gives Ok(None) and stays the lookahead.  On
\* <foo bar="bar" baz="baz" quz="quz"/> the calls after <foo return bar,
\* baz, quz and then None.
FindAttributeAnswers ==
    /\ ret.op = "find_attribute" =>
          /\ cur.kind = "Attribute" =>
                /\ ret = OkAttr("find_attribute", cur.local, cur.text)
                /\ consumed = startAt + 1
                /\ JustConsumed(cur)
          /\ (IsEnd(cur, "Open") \/ IsEnd(cur, "Empty")) =>
                /\ ret = Ok("find_attribute")
                /\ consumed = startAt
                /\ Lookahead(cur)
          /\ (ret.status = "Ok" /\ ret.some) => cur.kind = "Attribute"
    /\ \A n \in 1..3 :
          ReturnedAt(D_attrs, "find_attribute", n) =>
              ret = OkAttr("find_attribute", D_attrs[n + 1].local, V_text)
    /\ ReturnedAt(D_attrs, "find_attribute", 4) => ret = Ok("find_attribute")

\* find_attribute called again after it returned Ok(None): the same answer,
\* and the reader is as it was.
FindAttributeAgain ==
    (/\ ret = Ok("find_attribute")
     /\ ret'.op = "find_attribute") =>
        /\ ret' = ret
        /\ peeked' = peeked
        /\ consumed' = consumed

\* C7: repeated find_attribute calls return each Attribute of the start tag
\* once, in source order, consuming one token per Some; at the Open or Empty
\* marker they return Ok(None) without consuming it, again and again.
C7_FindAttribute == []FindAttributeAnswers /\ [][FindAttributeAgain]_vars

\* <foo bar="bar" baz="baz" quz="quz"/>: after the three attributes,
\* find_attribute has returned None and /> is still the next token.
C7_Witness ==
    /\ ReturnedAt(D_attrs, "find_attribute", 4)
    /\ ret = Ok("find_attribute")
    /\ Lookahead(D_attrs[5])

\* find_element_start's answers, as states.
FindElementStartAnswers ==
    (pc = "idle" /\ ret.op = "find_element_start") =>
        /\ cur.kind = "ElementStart" =>
              /\ ret = OkName("find_element_start", cur.local)
              /\ Lookahead(cur)
        /\ (IsEnd(cur, "Close") /\ end_tag # NoTag /\ cur.local = end_tag) =>
              /\ ret = Ok("find_element_start")
              /\ JustConsumed(cur)
        /\ IsNone(cur) => ret = UnexpectedEof("find_element_start")
        /\ ret.status = "Ok" =>
              \/ cur.kind = "ElementStart"
              \/ IsEnd(cur, "Close") /\ end_tag # NoTag /\ cur.local = end_tag

\* find_element_start with an ElementStart in the lookahead slot returns its
\* name and leaves it there; all it consumes on its way is text, CDATA and
\* the like, or the close tag it was asked for; and next() hands out what
\* is in the slot.
FindElementStartSteps ==
    /\ (pc = "find_element_start" /\ peeked.full
          /\ peeked.item.kind = "ElementStart") =>
          /\ ret' = OkName("find_element_start", peeked.item.local)
          /\ peeked' = peeked
          /\ consumed' = consumed
    /\ (pc = "find_element_start" /\ consumed' # consumed) =>
          \/ lastTok'.kind \in {"Text", "Cdata", "Comment", "Error"}
          \/ IsEnd(lastTok', "Close") /\ lastTok'.local = end_tag
    /\ (pc = "idle" /\ peeked.full /\ ret'.op = "next") =>
          ret'.tok = peeked.item /\ ~peeked'.full

\* C8: find_element_start returns the name of the next ElementStart without
\* consuming it (a repeated call returns it again, next() yields that
\* token); given Some(t) it consumes Close(t) and returns None; at the end
\* of the stream it fails with UnexpectedEof.
C8_FindElementStart == []FindElementStartAnswers /\ [][FindElementStartSteps]_vars

\* find_element_start has gone past text to an ElementStart named "b",
\* which is still the next token.
C8_Witness ==
    /\ pc = "idle"
    /\ ret = OkName("find_element_start", "b")
    /\ consumed > startAt
    /\ peeked.full /\ peeked.item.kind = "ElementStart"

\* The tokens of the document not yet consumed.
Remaining == Len(source.toks) - consumed

\* peek consumes nothing, and shows what the slot then holds; after a peek,
\* another peek returns the identical token and next() returns that token.
PeekSteps ==
    /\ (pc = "idle" /\ ret'.op = "peek") =>
          /\ consumed' = consumed
          /\ lastTok' = lastTok
          /\ Remaining' = Remaining
          /\ peeked' = [full |-> TRUE, item |-> ret'.tok]
          /\ ret.op = "peek" => ret' = ret
    /\ (pc = "idle" /\ ret.op = "peek" /\ ret'.op = "next") =>
          /\ ret'.tok = ret.tok
          /\ ~IsNone(ret.tok) => consumed' = consumed + 1

\* C9: any number of peeks without a consuming operation in between return
\* the identical token and consume nothing; the next() that follows returns
\* the token peek showed.
C9_PeekIdempotent == [][PeekSteps]_vars

\* peek has shown the third token of a stream, which is not consumed.
C9_Witness ==
    /\ ret.op = "peek"
    /\ ret.tok.kind = "ElementStart"
    /\ Lookahead(ret.tok)
    /\ consumed = 2

\* C10: read_text passes a Text token through the unescaper (the five
\* entities decode to "'<>&, and a reference the unescaper rejects makes
\* read_text fail) and keeps a CDATA token's content as it is.
C10_TextUnescapedCdataVerbatim ==
    /\ (ret.op = "read_text" /\ cur.kind = "Text") =>
          IF xml_unescape(cur.text).ok
             THEN pc = "read_text"
                  /\ res = [some |-> TRUE, val |-> xml_unescape(cur.text).val]
             ELSE pc = "idle" /\ ret = EscapeError("read_text")
    /\ (ret.op = "read_text" /\ cur.kind = "Text" /\ cur.text = V_entities) =>
          res.val = V_decoded
    /\ (ret.op = "read_text" /\ cur.kind = "Cdata") =>
          pc = "read_text" /\ res = [some |-> TRUE, val |-> cur.text]
    /\ Returned(D_escaped, "read_text", "parent", 1) =>
          ret = OkText("read_text", V_decoded)
    /\ Returned(D_cdata, "read_text", "parent", 1) =>
          ret = OkText("read_text", V_entities)

\* <parent attr="value"><![CDATA[&quot;&apos;&lt;&gt;&amp;]]></parent>:
\* read_text("parent") after <parent has returned the CDATA as it stands.
C10_Witness ==
    /\ Returned(D_cdata, "read_text", "parent", 1)
    /\ ret = OkText("read_text", V_entities)
    /\ consumed = 5

\* The documents of an element `p` with nothing in it, and where each ends.
EmptyDocs ==
    {D_empty, D_selfClosed, D_emptyCdata, D_emptyAttr, D_selfClosedAttr}

\* C11: read_text("p") called after <p returns Ok("") for <p></p>, <p/> and
\* <p><![CDATA[]]></p>, with or without attributes on the start tag, and has
\* consumed the document through the end of the element, so that what comes
\* next is the end of the stream.  On any text, a read_text that returns Ok
\* without having met a Text or a Cdata token returns "".
C11_EmptyElementText ==
    /\ \A doc \in EmptyDocs :
          Returned(doc, "read_text", "p", 1) =>
             /\ ret = OkText("read_text", V_empty)
             /\ JustConsumed(doc[Len(doc)])
             /\ Remaining = 0
    /\ (pc = "idle" /\ ret.op = "read_text" /\ ret.status = "Ok"
        /\ texts.n = 0) =>
          ret = OkText("read_text", V_empty)

\* <p x="text"/>: read_text("p") after <p has returned "" at the end of the
\* document.
C11_Witness ==
    /\ Returned(D_selfClosedAttr, "read_text", "p", 1)
    /\ ret = OkText("read_text", V_empty)
    /\ IsEnd(lastTok, "Empty")
    /\ consumed = 3

\* The string a Text or a Cdata token stands for.
ValueOf(tok) ==
    IF tok.kind = "Text" THEN xml_unescape(tok.text).val ELSE tok.text

\* C12: when read_text meets several Text or Cdata tokens before the close
\* tag it succeeds and returns the value of the last of them alone (unescaped
\* if it is a Text, as it stands if it is a Cdata): after each such token
\* `res` holds that token's value and nothing of the earlier ones, a further
\* such token is no error unless its own escapes are, and the value returned
\* is the last token's.
C12_LastTextWins ==
    /\ (pc = "read_text" /\ texts.n >= 1) =>
          res = [some |-> TRUE, val |-> ValueOf(texts.last)]
    /\ (ret.op = "read_text" /\ texts.n >= 2 /\ cur = texts.last) =>
          \/ pc = "read_text"
          \/ /\ cur.kind = "Text" /\ ~xml_unescape(cur.text).ok
             /\ ret = EscapeError("read_text")
    /\ (pc = "idle" /\ ret.op = "read_text" /\ ret.status = "Ok"
        /\ texts.n >= 1) =>
          ret = OkText("read_text", ValueOf(texts.last))
    /\ Returned(D_textCdata, "read_text", "p", 1) =>
          ret = OkText("read_text", V_text) /\ Remaining = 0
    /\ Returned(D_cdataText, "read_text", "p", 1) =>
          ret = OkText("read_text", V_decoded) /\ Remaining = 0

\* <p><![CDATA[text]]>&quot;&apos;&lt;&gt;&amp;</p>: read_text("p") has met the CDATA and then
\* the text and has returned the text alone, unescaped.
C12_Witness ==
    /\ Returned(D_cdataText, "read_text", "p", 1)
    /\ texts.n = 2
    /\ texts.last.kind = "Text"
    /\ ret = OkText("read_text", V_decoded)
    /\ V_decoded # V_text

DepthSteps ==
    /\ (pc = "rte_track" /\ ~IsNone(cur') /\ ~IsErr(cur')) =>
          /\ consumed' = consumed + 1
          /\ IF cur'.kind = "ElementStart" /\ cur'.local = end_tag
                THEN pc' = "rte_inner" /\ depth' = depth
             ELSE IF IsEnd(cur', "Close") /\ cur'.local = end_tag
                THEN IF depth = 1
                        THEN pc' \notin {"rte_track", "rte_inner"}
                             /\ elem'.status = "Ok"
                        ELSE pc' = "rte_track" /\ depth' = depth - 1
             ELSE /\ pc' = "rte_track"
                  /\ depth' = depth
                  /\ end_tag' = end_tag
                  /\ ret' = ret
    /\ (pc = "rte_inner" /\ IsEnd(cur', "Open")) =>
          pc' = "rte_track" /\ depth' = depth + 1
    /\ (pc = "rte_inner" /\ IsEnd(cur', "Empty")) =>
          pc' = "rte_track" /\ depth' = depth
    /\ (pc = "rte_inner" /\ cur'.kind = "Attribute") =>
          pc' = "rte_inner" /\ depth' = depth /\ ret' = ret

\* C14: in read_to_end's depth tracking only the tokens that name end_tag
\* change depth: ElementStart(end_tag) with the Open marker after its
\* attributes adds 1, with the Empty marker leaves it, Close(end_tag) takes 1
\* off (and returns at 0); every Text, CDATA, comment, and every ElementStart,
\* Attribute and ElementEnd of an element of another name is consumed with
\* depth as it was, and read_to_end neither returns nor fails on it.
C14_DepthOnlyByEndTag == [][DepthSteps]_vars

\* read_to_end, two same-named elements deep, has just passed over the close
\* tag of an element of another name.
C14_Witness ==
    /\ pc = "rte_track"
    /\ depth = 2
    /\ IsEnd(cur, "Close")
    /\ cur.local # end_tag
    /\ JustConsumed(cur)

\* The five helpers, by the name their results carry.
Helpers ==
    {"find_attribute", "find_element_start", "read_text", "read_to_end",
     "read_till_element_start"}

\* A helper whose last iteration matched on a lexical error has returned it,
\* and the error is the last thing it took from the stream.
LexErrorReturns ==
    (ret.op \in Helpers /\ IsErr(cur)) =>
        /\ pc = "idle"
        /\ ret = LexError(ret.op, cur)
        /\ ret.status = "Err"
        /\ JustConsumed(cur)

\* The step on which a running helper meets a lexical error ends the call.
LexErrorSteps ==
    (pc # "idle" /\ IsErr(cur')) => pc' = "idle" /\ ret'.status = "Err"

\* C15: a lexical error makes the helper that meets it return an error in
\* that very call, whether it pulled it (read_text, read_till_element_start,
\* read_to_end in each of its three loops) or peeked it (find_attribute,
\* find_element_start): the call is over, its result is the error, never Ok,
\* and it pulls no further token.
C15_LexErrorEndsCall == []LexErrorReturns /\ [][LexErrorSteps]_vars

\* read_till_element_start was skipping a sibling through read_to_end when
\* the error came: the error is what read_till_element_start returned.
C15_Witness ==
    /\ pc = "idle"
    /\ ret.op = "read_till_element_start"
    /\ IsErr(cur)
    /\ elem.status = "Err"
    /\ ret = LexError("read_till_element_start", cur)
    /\ consumed - startAt >= 4

\* An iteration of a running helper returns, or consumes exactly one token,
\* or finds the stream at its end: read_to_end's first and nested loop are
\* then left for the tracking loop, which returns on its next pull.
ProgressSteps ==
    (pc # "idle") =>
        \/ pc' = "idle"
        \/ consumed' = consumed + 1 /\ fetched' >= fetched
        \/ /\ IsNone(cur') /\ ended'
           /\ pc \in {"rte_drain", "rte_inner"} /\ pc' = "rte_track"
           /\ consumed' = consumed

\* What bounds the iterations a running helper has left: two for each token
\* the stream may still yield, and one for leaving read_to_end's first or
\* nested loop at the end of the stream.
StreamLen == IF source.any THEN MaxTokens ELSE Len(source.toks)

Variant ==
    2 * (StreamLen - consumed)
       + (IF pc \in {"rte_drain", "rte_inner"} THEN 1 ELSE 0)

VariantSteps ==
    (pc # "idle" /\ pc' # "idle") => Variant' < Variant /\ Variant' >= 0

\* A call has consumed no more than the stream had left when it began, and
\* a helper that is running always has an item to match on next (None when
\* the stream has ended).
ConsumedWithinStream ==
    /\ startAt <= consumed
    /\ consumed <= fetched
    /\ consumed <= StreamLen
    /\ pc # "idle" => Incoming # {}
    /\ pc = "idle" => ret.status \in {"Ok", "Err"}

\* C16: on a finite stream every helper terminates with Ok or Err: each loop
\* iteration that does not return consumes exactly one token, so that the
\* iterations a call has left go down with every iteration and never below
\* zero, and a call consumes no more than the tokens that were left when it
\* began.
C16_HelpersTerminate ==
    /\ [][ProgressSteps /\ VariantSteps]_vars
    /\ []ConsumedWithinStream

\* <a><b></a>: read_to_end("b") called after <b has consumed all that was
\* left of the document, two tokens, and has returned UnexpectedEof.
C16_Witness ==
    /\ ReturnedAt(D_mismatch, "read_to_end", 3)
    /\ ret = UnexpectedEof("read_to_end")
    /\ consumed = Len(D_mismatch)
    /\ ended

\* Where the cursor stands: the tokens handed out are the first `consumed`
\* of the stream, the last of them the token at that place, and the one
\* token fetched beyond them, if any, is in the lookahead slot.
InSourceOrder ==
    /\ consumed <= fetched
    /\ fetched <= consumed + 1
    /\ fetched = consumed + 1 <=> (peeked.full /\ ~IsNone(peeked.item))
    /\ (peeked.full /\ ~IsNone(peeked.item)) => peeked.item.span = consumed + 1
    /\ consumed > 0 => lastTok.span = consumed
    /\ (~source.any /\ consumed > 0) => lastTok = source.toks[consumed]
    /\ (~source.any /\ fetched = consumed + 1) =>
          peeked.item = source.toks[fetched]

\* A step hands out no token or the next one, which is the token in the
\* slot if there is one; it never goes back.
CursorSteps ==
    /\ consumed' \in {consumed, consumed + 1}
    /\ fetched' \in {fetched, fetched + 1}
    /\ consumed' = consumed => lastTok' = lastTok
    /\ consumed' = consumed + 1 =>
          /\ lastTok'.span = consumed + 1
          /\ (peeked.full => lastTok' = peeked.item /\ fetched' = fetched)
          /\ (~peeked.full => fetched' = fetched + 1)

\* C17: the cursor never goes back and the tokens are observed in source
\* order: each token is consumed at most once, the k-th token consumed is
\* the k-th token of the stream, and the only token fetched but not yet
\* consumed is the one in the lookahead slot.
C17_SourceOrder == []InSourceOrder /\ [][CursorSteps]_vars

\* <parent><skip/><skip2><x/></skip2><target/></parent>: nine tokens have
\* been consumed, the ninth is </skip2>, and <target, the tenth, is in the
\* lookahead slot.
C17_Witness ==
    /\ ~source.any /\ source.toks = D_skip
    /\ consumed = 9
    /\ lastTok = D_skip[9]
    /\ Lookahead(D_skip[10])
    /\ fetched = 10

\* read_to_end's counter while its second loop runs.
DepthAtLeastOne ==
    /\ pc \in {"rte_track", "rte_inner"} => depth >= 1
    /\ depth >= 0

\* read_to_end returns from its tracking loop on the decrement that brings
\* the counter to 0, and never from its nested loop with Ok.
DepthReturnSteps ==
    /\ (pc = "rte_track" /\ IsEnd(cur', "Close") /\ cur'.local = end_tag) =>
          IF depth = 1
             THEN pc' \notin {"rte_track", "rte_inner"} /\ elem'.status = "Ok"
             ELSE pc' = "rte_track" /\ depth' = depth - 1 /\ depth' >= 1
    /\ (pc = "rte_track" /\ elem'.status = "Ok") =>
          depth = 1 /\ IsEnd(cur', "Close") /\ cur'.local = end_tag
    /\ pc = "rte_inner" => elem'.status # "Ok"
    /\ (pc = "rte_inner" /\ IsEnd(cur', "Empty")) =>
          pc' = "rte_track" /\ depth' = depth /\ depth >= 1

\* C18: on every token stream, well nested or not, read_to_end's depth is
\* at least 1 at the start of every iteration of its tracking loop and while
\* the markers of a nested start tag of the same name are drained; it
\* returns the moment a decrement makes depth 0, so the counter is never
\* negative; and the `depth == 0` return of the nested Empty branch is never
\* taken.
C18_DepthStaysPositive == []DepthAtLeastOne /\ [][DepthReturnSteps]_vars

\* On a stream that is not well nested read_to_end has drained a nested
\* self-closing start tag of its own name and goes on at depth 1.
C18_Witness ==
    /\ pc = "rte_track"
    /\ IsEnd(cur, "Empty")
    /\ depth = 1
    /\ ~elem.wf
    /\ elem.kind # "off"

\* The tokens read_text has an arm for.
ReadTextKnows(item) ==
    \/ item.kind \in {"Attribute", "Text", "Cdata"}
    \/ IsEnd(item, "Open") \/ IsEnd(item, "Close") \/ IsEnd(item, "Empty")

\* C19: read_text fails with UnexpectedToken, and returns no text, whenever
\* the token it pulls before the element is closed is none of Attribute, the
\* Open marker, Text, CDATA, a Close tag or the Empty marker: a child
\* ElementStart or a comment inside the element makes it fail, also after a
\* Text has been seen.
C19_ReadTextUnexpectedToken ==
    /\ (ret.op = "read_text" /\ cur # NotYet /\ ~IsNone(cur) /\ ~IsErr(cur)
        /\ ~ReadTextKnows(cur)) =>
          /\ pc = "idle"
          /\ ret = UnexpectedToken("read_text", cur)
          /\ ~ret.some
          /\ JustConsumed(cur)
    /\ (ret.op = "read_text" /\ cur.kind \in {"ElementStart", "Comment"}) =>
          ret = UnexpectedToken("read_text", cur)
    /\ Returned(D_mixed, "read_text", "a", 1) =>
          ret = UnexpectedToken("read_text", D_mixed[4]) /\ texts.n = 1

\* <a>text<b/></a>: read_text("a") called after <a has met the text and then
\* <b, and has failed on it.
C19_Witness ==
    /\ Returned(D_mixed, "read_text", "a", 1)
    /\ texts.n = 1
    /\ cur = D_mixed[4]
    /\ cur.kind = "ElementStart"
    /\ ret = UnexpectedToken("read_text", cur)

====
